---------------------------- MODULE Spec2Model ----------------------------
(***************************************************************************)
(* Model of src/services/geminiService.ts: the five pipeline stages         *)
(* (Router, Hunter, Scraper, Analyst, Reporter), each an async function     *)
(* that suspends once, at its gateway call, and the sequential driver that  *)
(* threads each stage's output into the next.                               *)
(*                                                                          *)
(* Strings are sequences of tokens.  Text that comes from outside (the      *)
(* query, gateway responses, company names) is one character per token;     *)
(* the fixed pieces of the source's template literals are one token each.   *)
(* An optional value (a JavaScript value that may be undefined) is a        *)
(* sequence of length 0 or 1.                                               *)
(***************************************************************************)
EXTENDS Integers, Sequences, FiniteSets, TLC

-----------------------------------------------------------------------------
(* Bounds of the model *)

\* the wall clock / performance clock reading when the run starts (ms)
ClockStart == 998

\* the longest time (ms) a whole run may take
MaxElapsed == 2

-----------------------------------------------------------------------------
(* Program constants *)

\* Hunter: u.content.slice(0, 2000)
ContentCap == 2000

\* Hunter: (response.text || "").slice(0, 200) for a grounded record
SnippetLen == 200

\* Hunter: response.text.slice(0, 150) for the fallback record
FallbackSnippetLen == 150

\* Scraper: u.content.slice(0, 2000) in the Summary block
SummaryCap == 2000

\* Analyst: content.trim().length > 10
MinContentLen == 10

-----------------------------------------------------------------------------
(* Strings and optional values *)

Undefined == <<>>

Some(v) == <<v>>

IsDefined(o) == o # <<>>

Min(a, b) == IF a < b THEN a ELSE b

\* String.prototype.length: the sum of the tokens' lengths
RECURSIVE StrLen(_)
StrLen(s) == IF s = <<>> THEN 0 ELSE Len(Head(s)) + StrLen(Tail(s))

\* String.prototype.slice(0, n) on a one-character-per-token string
Slice(s, n) == SubSeq(s, 1, Min(n, Len(s)))

IsWhite(tok) == tok \in {" ", "\n", "\t"}

RECURSIVE TrimStart(_)
TrimStart(s) ==
    IF s # <<>> /\ IsWhite(Head(s)) THEN TrimStart(Tail(s)) ELSE s

RECURSIVE TrimEnd(_)
TrimEnd(s) ==
    IF s # <<>> /\ IsWhite(s[Len(s)]) THEN TrimEnd(SubSeq(s, 1, Len(s) - 1)) ELSE s

\* String.prototype.trim
Trim(s) == TrimEnd(TrimStart(s))

\* a template literal's ${v}: undefined prints as "undefined"
Interpolate(o) == IF IsDefined(o) THEN o[1] ELSE <<"undefined">>

\* Array.prototype.join(sep) on a sequence of strings
RECURSIVE Join(_, _)
Join(strs, sep) ==
    IF strs = <<>> THEN <<>>
    ELSE IF Len(strs) = 1 THEN strs[1]
    ELSE strs[1] \o sep \o Join(Tail(strs), sep)

EncodeChar(c) ==
    CASE c = " " -> <<"%", "2", "0">>
      [] c = "&" -> <<"%", "2", "6">>
      [] OTHER -> <<c>>

\* encodeURIComponent: unreserved characters are kept, the others escaped
RECURSIVE encodeURIComponent(_)
encodeURIComponent(s) ==
    IF s = <<>> THEN <<>> ELSE EncodeChar(Head(s)) \o encodeURIComponent(Tail(s))

\* s occurs in t as a contiguous run of tokens
Contains(t, s) ==
    \E i \in 0..(Len(t) - Len(s)) : SubSeq(t, i + 1, i + Len(s)) = s

IsPrefix(p, t) == Len(p) <= Len(t) /\ SubSeq(t, 1, Len(p)) = p

-----------------------------------------------------------------------------
(* Clocks, cost, log entries *)

\* Date.prototype.toISOString: the fields down to the second, then the
\* millisecond field; ISO strings are compared field by field
toISOString(t) == <<t \div 1000, t % 1000>>

IsoLeq(a, b) == a[1] < b[1] \/ (a[1] = b[1] /\ a[2] <= b[2])

Stages == <<"ROUTER", "HUNTER", "SCRAPER", "ANALYST", "REPORTER">>

\* ../constants MODELS: the model identifier of each stage (configuration; the
\* identifiers stand for whatever the table holds)
MODELS ==
    [ROUTER |-> "gemini-2.5-flash", HUNTER |-> "gemini-2.5-flash",
     SCRAPER |-> "gemini-2.5-flash", ANALYST |-> "gemini-2.5-pro",
     REPORTER |-> "gemini-2.5-pro"]

\* ../constants PRICING: price per 1000 tokens, in millionths of a currency unit
\* (configuration; line 13 names 'gemini-2.5-flash' as the tier to fall back to)
PRICING ==
    [m \in {"gemini-2.5-flash"} |-> [input |-> 75, output |-> 300]]

\* usage counts the gateway may report
NoUsage == Undefined

FullUsage ==
    Some([promptTokenCount |-> Some(120), candidatesTokenCount |-> Some(30),
          totalTokenCount |-> Some(150)])

BareUsage ==
    Some([promptTokenCount |-> Undefined, candidatesTokenCount |-> Some(30),
          totalTokenCount |-> Undefined])

\* (o || 0)
OrZero(o) == IF IsDefined(o) /\ o[1] # 0 THEN o[1] ELSE 0

\* the cost, times 1000 (the source divides each count by 1000)
calculateCost(model, usage) ==
    IF ~IsDefined(usage) THEN 0
    ELSE LET pricing == IF model \in DOMAIN PRICING THEN PRICING[model]
                        ELSE PRICING["gemini-2.5-flash"]
             inputCost == OrZero(usage[1].promptTokenCount) * pricing.input
             outputCost == OrZero(usage[1].candidatesTokenCount) * pricing.output
         IN inputCost + outputCost

\* response.usageMetadata?.totalTokenCount || 0
TotalTokens(usage) == IF IsDefined(usage) THEN OrZero(usage[1].totalTokenCount) ELSE 0

\* the LogEntry every stage builds when it returns after a completed call
SuccessLog(agent, message, start, end, wall, usage) ==
    [timestamp |-> toISOString(wall),
     agent |-> agent,
     message |-> message,
     type |-> "success",
     latencyMs |-> end - start,
     tokenUsage |-> TotalTokens(usage),
     cost |-> calculateCost(MODELS[agent], usage)]

-----------------------------------------------------------------------------
(* JSON text returned by the gateway (Router and Analyst ask for JSON) *)

\* the three fields of the routing schema, each possibly missing
RouterObj(tc, at, sq) ==
    [target_company |-> tc, analysis_type |-> at, search_queries |-> sq]

EmptyRouterObj == RouterObj(Undefined, Undefined, Undefined)

\* a JSON value: an object, null, or a primitive (number, string, boolean)
JsonObject(o) == [kind |-> "object", obj |-> o]

JsonNull(o) == [kind |-> "null", obj |-> o]

JsonPrimitive(o) == [kind |-> "primitive", obj |-> o]

\* response.text: absent, "", text that is no JSON, or the text of a JSON value
AbsentText(o) == [kind |-> "absent", value |-> JsonObject(o)]

EmptyText(o) == [kind |-> "empty", value |-> JsonObject(o)]

GarbageText(o) == [kind |-> "garbage", value |-> JsonObject(o)]

JsonText(v) == [kind |-> "json", value |-> v]

\* response.text || "{}"
OrEmptyObject(text, emptyObj) ==
    IF text.kind \in {"absent", "empty"} THEN JsonText(JsonObject(emptyObj)) ELSE text

\* JSON.parse throws a SyntaxError on text that is no JSON
JsonParseThrows(text) == text.kind # "json"

JsonParse(text) == text.value

-----------------------------------------------------------------------------
(* 1. Router *)

\* contents: query
RouterRequest(query) == [model |-> MODELS.ROUTER, contents |-> query]

\* lines 43-57 throw: JSON.parse fails, or result is null and
\* result.target_company is read
RouterThrows(response) ==
    LET text == OrEmptyObject(response.text, EmptyRouterObj)
    IN JsonParseThrows(text) \/ JsonParse(text).kind = "null"

\* { ...result, log }: spreading a primitive adds no field
RouterResult(response, start, end, wall) ==
    LET parsed == JsonParse(OrEmptyObject(response.text, EmptyRouterObj))
        result == IF parsed.kind = "object" THEN parsed.obj ELSE EmptyRouterObj
    IN [target_company |-> result.target_company,
        analysis_type |-> result.analysis_type,
        search_queries |-> result.search_queries,
        log |-> SuccessLog("ROUTER",
                           [kind |-> "Identified target",
                            company |-> Interpolate(result.target_company),
                            analysis |-> Interpolate(result.analysis_type)],
                           start, end, wall, response.usageMetadata)]

-----------------------------------------------------------------------------
(* 2. Hunter *)

\* queries.length > 0 ? `Specifically investigate these topics: ...` : ""
queryContext(queries) ==
    IF Len(queries) > 0
    THEN <<"Specifically investigate these topics: ">> \o Join(queries, <<", ">>) \o <<".">>
    ELSE <<>>

HunterRequest(company, queries) ==
    [model |-> MODELS.HUNTER,
     contents |-> <<"Find the latest official news, pricing, and feature announcements for ">>
                  \o Interpolate(company) \o <<". ">> \o queryContext(queries)
                  \o <<" Be thorough and prioritize recent data.">>]

\* a string option is truthy when it is defined and not ""
Truthy(o) == IsDefined(o) /\ o[1] # <<>>

\* (response.text || "")
TextOrEmpty(o) == IF Truthy(o) THEN o[1] ELSE <<>>

\* response.candidates?.[0]?.groundingMetadata?.groundingChunks || []
groundingChunks(response) ==
    IF IsDefined(response.groundingChunks) THEN response.groundingChunks[1] ELSE <<>>

\* chunk.web?.uri && chunk.web?.title
Usable(chunk) == Truthy(chunk.uri) /\ Truthy(chunk.title)

GroundedRecord(chunk, response) ==
    [url |-> chunk.uri[1],
     title |-> chunk.title[1],
     snippet |-> Slice(TextOrEmpty(response.text), SnippetLen) \o <<"...">>,
     content |-> TextOrEmpty(response.text)]

SearchUrl(company) ==
    <<"https://google.com/search?q=">> \o encodeURIComponent(Interpolate(company))

\* slip: the company goes into the URL without encodeURIComponent
FallbackRecordRawCompany(company, response) ==
    [url |-> <<"https://google.com/search?q=">> \o Interpolate(company),
     title |-> Interpolate(company) \o <<" Search Results">>,
     snippet |-> Slice(response.text[1], FallbackSnippetLen) \o <<"...">>,
     content |-> response.text[1]]

FallbackRecord(company, response) ==
    [url |-> SearchUrl(company),
     title |-> Interpolate(company) \o <<" Search Results">>,
     snippet |-> Slice(response.text[1], FallbackSnippetLen) \o <<"...">>,
     content |-> response.text[1]]

\* the local discoveredUrls once the fallback has been applied (lines 87-104)
discoveredUrls(company, response) ==
    LET usable == SelectSeq(groundingChunks(response), Usable)
        grounded == [i \in 1..Len(usable) |-> GroundedRecord(usable[i], response)]
    IN IF Len(grounded) = 0 /\ Truthy(response.text)
       THEN <<FallbackRecord(company, response)>>
       ELSE grounded

\* slip: the cap is off by one
TruncateContentOffByOne(u) == [u EXCEPT !.content = Slice(@, ContentCap + 1)]

\* u.content.slice(0, 2000)
TruncateContent(u) == [u EXCEPT !.content = Slice(@, ContentCap)]

optimizedUrls(discovered) ==
    [i \in 1..Len(discovered) |-> TruncateContent(discovered[i])]

\* the number the log message reports: discoveredUrls.length
DiscoveredCount(discovered) == Len(discovered)

HunterResult(company, response, start, end, wall) ==
    LET discovered == discoveredUrls(company, response)
    IN [discoveredUrls |-> optimizedUrls(discovered),
        log |-> SuccessLog("HUNTER",
                           [kind |-> "Discovered high-signal URLs",
                            count |-> DiscoveredCount(discovered)],
                           start, end, wall, response.usageMetadata)]

-----------------------------------------------------------------------------
(* 3. Scraper *)

NoUrlsText ==
    <<"No specific URLs found, please analyze general knowledge about the company.">>

SourceBlock(u) ==
    <<"Source: ">> \o u.url \o <<"\nTitle: ">> \o u.title
    \o <<"\nSummary: ">> \o Slice(u.content, SummaryCap)

rawText(urls) ==
    IF Len(urls) > 0
    THEN Join([i \in 1..Len(urls) |-> SourceBlock(urls[i])], <<"\n\n">>)
    ELSE NoUrlsText

ScraperRequest(urls) ==
    [model |-> MODELS.SCRAPER,
     contents |-> <<"You are a Data Engineer. Clean and consolidate the following competitive intelligence data. RAW DATA: ">>
                  \o rawText(urls)]

NoSummaryText == <<"Data extracted but no summary generated.">>

ScraperResult(urls, response, start, end, wall) ==
    [extractedContent |-> IF IsDefined(response.text) /\ StrLen(response.text[1]) > 0
                          THEN response.text[1]
                          ELSE NoSummaryText,
     log |-> SuccessLog("SCRAPER",
                        [kind |-> "Processed and cleaned content", count |-> Len(urls)],
                        start, end, wall, response.usageMetadata)]

-----------------------------------------------------------------------------
(* 4. Analyst *)

ScoreKeys ==
    {"innovation", "market_share", "pricing_power", "brand_reputation", "velocity"}

\* a scores object: each of the five keys present (with its number) or not
AllScores(n) == [k \in ScoreKeys |-> Some(n)]

NoScores == [k \in ScoreKeys |-> Undefined]

\* the value of the "scores" field: an object, or a value that is no object
\* (falsy: null, 0, "", or the field is missing; truthy: a non-zero number)
ScoresObject(keys) == [kind |-> "object", keys |-> keys]

ScoresFalsy == [kind |-> "falsy", keys |-> NoScores]

ScoresNumber == [kind |-> "number", keys |-> NoScores]

\* the SWOT object: four optional lists and the scores field
SwotObj(st, we, op, th, sc) ==
    [strengths |-> st, weaknesses |-> we, opportunities |-> op, threats |-> th,
     scores |-> sc]

EmptySwotObj == SwotObj(Undefined, Undefined, Undefined, Undefined, ScoresFalsy)

NoDataText == <<"No data available for analysis.">>

\* slip: the length is taken without trim()
safeContentUntrimmed(content) ==
    IF content # <<>> /\ StrLen(content) > MinContentLen THEN content ELSE NoDataText

\* content && content.trim().length > 10 ? content : "No data available for analysis."
safeContent(content) ==
    IF content # <<>> /\ StrLen(Trim(content)) > MinContentLen THEN content ELSE NoDataText

AnalystRequest(content) ==
    [model |-> MODELS.ANALYST, contents |-> <<"Data: ">> \o safeContent(content)]

\* the inner try block throws: JSON.parse fails, swot is null and swot.scores
\* is read, or swot is a primitive and swot.scores is assigned (the file is an
\* ES module, so the assignment is strict-mode code and throws a TypeError)
AnalystParseFails(response) ==
    LET text == OrEmptyObject(response.text, EmptySwotObj)
    IN \/ JsonParseThrows(text)
       \/ JsonParse(text).kind \in {"null", "primitive"}

\* if (!swot.scores) swot.scores = { innovation: 50, ... }
BackfillScores(scores) ==
    IF scores.kind = "falsy" THEN ScoresObject(AllScores(50)) ELSE scores

\* slip: the catch block uses the midpoint scores of the other fallback
FallbackSwotMidpoint ==
    SwotObj(Some(<<>>), Some(<<>>), Some(<<>>), Some(<<>>), ScoresObject(AllScores(50)))

\* the catch block's SWOT
FallbackSwot ==
    SwotObj(Some(<<>>), Some(<<>>), Some(<<>>), Some(<<>>), ScoresObject(AllScores(0)))

ParseSwot(response) ==
    IF AnalystParseFails(response) THEN FallbackSwot
    ELSE LET swot == JsonParse(OrEmptyObject(response.text, EmptySwotObj)).obj
         IN [swot EXCEPT !.scores = BackfillScores(@)]

RECURSIVE SumOver(_, _)
SumOver(keys, scoreKeys) ==
    IF scoreKeys = {} THEN 0
    ELSE LET k == CHOOSE x \in scoreKeys : TRUE
         IN (IF IsDefined(keys[k]) THEN keys[k][1] ELSE 0) + SumOver(keys, scoreKeys \ {k})

\* Object.values(swot.scores).reduce((a, b) => a + b, 0)
ScoreSum(scores) == IF scores.kind = "object" THEN SumOver(scores.keys, ScoreKeys) ELSE 0

AnalystResult(response, start, end, wall) ==
    LET swot == ParseSwot(response)
    IN [swot |-> swot,
        log |-> SuccessLog("ANALYST",
                           [kind |-> "Generated SWOT analysis",
                            avgTimes5 |-> ScoreSum(swot.scores)],
                           start, end, wall, response.usageMetadata)]

-----------------------------------------------------------------------------
(* 5. Reporter *)

\* `Company: ${company}\n\nSWOT Analysis:\n${swotText}\n\nContext Data:\n${rawData}`
ReporterRequest(swot, rawData, company) ==
    [model |-> MODELS.REPORTER,
     contents |-> [company |-> Interpolate(company), swotText |-> swot, rawData |-> rawData]]

FailedReportText ==
    <<"# Report Generation Failed\n\nThe AI model encountered an error generating the final report. Please try again.">>

\* if (!response.text) throw new Error("Reporter agent returned empty content.")
ReporterEmpty(response) == ~Truthy(response.text)

ReporterSuccess(company, response, start, end, wall) ==
    [report |-> response.text[1],
     log |-> SuccessLog("REPORTER",
                        [kind |-> "Finalized executive report",
                         company |-> Interpolate(company)],
                        start, end, wall, response.usageMetadata)]

\* slip: the failure result carries no report text
ReporterFailureEmptyReport(error, wall) ==
    [report |-> <<>>,
     log |-> [timestamp |-> toISOString(wall),
              agent |-> "REPORTER",
              message |-> [kind |-> "Failed to generate report", error |-> error],
              type |-> "error",
              latencyMs |-> 0,
              tokenUsage |-> 0,
              cost |-> 0]]

\* slip: the failure LogEntry is labelled with the previous stage
ReporterFailureWrongAgent(error, wall) ==
    [report |-> FailedReportText,
     log |-> [timestamp |-> toISOString(wall),
              agent |-> "ANALYST",
              message |-> [kind |-> "Failed to generate report", error |-> error],
              type |-> "error",
              latencyMs |-> 0,
              tokenUsage |-> 0,
              cost |-> 0]]

\* slip: the failure LogEntry's timestamp is zeroed with the other numbers
ReporterFailureEpochTimestamp(error, wall) ==
    [report |-> FailedReportText,
     log |-> [timestamp |-> toISOString(0),
              agent |-> "REPORTER",
              message |-> [kind |-> "Failed to generate report", error |-> error],
              type |-> "error",
              latencyMs |-> 0,
              tokenUsage |-> 0,
              cost |-> 0]]

\* the catch block: a graceful failure result instead of a thrown error
ReporterFailure(error, wall) ==
    [report |-> FailedReportText,
     log |-> [timestamp |-> toISOString(wall),
              agent |-> "REPORTER",
              message |-> [kind |-> "Failed to generate report", error |-> error],
              type |-> "error",
              latencyMs |-> 0,
              tokenUsage |-> 0,
              cost |-> 0]]

-----------------------------------------------------------------------------
(* What the outside supplies: the query and the gateway's responses *)

CompanyPlain == <<"A", "c">>

CompanySpaced == <<"A", " ", "B">>

Queries == {<<"A", "n", "a", "l", "y", "z", "e", " ", "A", "c">>}

Pricing == <<"p">>

\* a text of n characters whose characters differ from place to place
Chars == <<"x", "y", "z">>

TextOf(n) == [i \in 1..n |-> Chars[(i % 3) + 1]]

Spaces(n) == [i \in 1..n |-> " "]

RouterObjs ==
    {RouterObj(Some(CompanyPlain), Some(Pricing), Some(<<Pricing, TextOf(2)>>)),
     RouterObj(Some(CompanySpaced), Some(Pricing), Some(<<>>)),
     RouterObj(Some(CompanyPlain), Some(Pricing), Undefined),
     RouterObj(Undefined, Some(Pricing), Some(<<Pricing>>)),
     RouterObj(Some(CompanyPlain), Undefined, Some(<<Pricing>>)),
     EmptyRouterObj}

RouterTexts ==
    {AbsentText(EmptyRouterObj), EmptyText(EmptyRouterObj), GarbageText(EmptyRouterObj),
     JsonText(JsonNull(EmptyRouterObj)), JsonText(JsonPrimitive(EmptyRouterObj))}
    \cup {JsonText(JsonObject(o)) : o \in RouterObjs}

RouterResponses ==
    {[text |-> t, usageMetadata |-> FullUsage] : t \in RouterTexts}
    \cup {[text |-> AbsentText(EmptyRouterObj), usageMetadata |-> NoUsage]}

Chunk(uri, title) == [uri |-> uri, title |-> title]

ChunkOne == Chunk(Some(<<"u", "1">>), Some(<<"t", "1">>))

ChunkTwo == Chunk(Some(<<"u", "2">>), Some(<<"t", "2">>))

ChunkLists ==
    {<<>>, <<ChunkOne>>, <<ChunkTwo, ChunkOne>>,
     <<Chunk(Some(<<"u", "3">>), Undefined)>>,
     <<Chunk(Undefined, Some(<<"t", "4">>)), ChunkOne, Chunk(Some(<<>>), Some(<<"t", "5">>))>>}

HunterTexts ==
    {Undefined, Some(<<>>), Some(TextOf(3)), Some(TextOf(ContentCap)),
     Some(TextOf(ContentCap + 1))}

HunterResponses ==
    {[text |-> t, groundingChunks |-> Some(c), usageMetadata |-> FullUsage] :
        t \in HunterTexts, c \in ChunkLists}
    \cup {[text |-> t, groundingChunks |-> Undefined, usageMetadata |-> BareUsage] :
            t \in {Undefined, Some(TextOf(3))}}

ScraperTexts ==
    {Undefined, Some(<<>>), Some(TextOf(MinContentLen)), Some(TextOf(MinContentLen + 1)),
     Some(Spaces(2) \o TextOf(MinContentLen) \o Spaces(2)),
     Some(Spaces(MinContentLen + 2))}

ScraperResponses == {[text |-> t, usageMetadata |-> FullUsage] : t \in ScraperTexts}

SomeList == Some(<<TextOf(2)>>)

PartialScores == [k \in ScoreKeys |-> IF k = "innovation" THEN Some(70) ELSE Undefined]

SwotObjs ==
    {SwotObj(SomeList, SomeList, SomeList, SomeList, sc) :
        sc \in {ScoresObject(AllScores(70)), ScoresObject(AllScores(150)),
                ScoresObject(PartialScores), ScoresObject(NoScores),
                ScoresFalsy, ScoresNumber}}
    \cup {EmptySwotObj}

AnalystTexts ==
    {AbsentText(EmptySwotObj), EmptyText(EmptySwotObj), GarbageText(EmptySwotObj),
     JsonText(JsonNull(EmptySwotObj)), JsonText(JsonPrimitive(EmptySwotObj))}
    \cup {JsonText(JsonObject(o)) : o \in SwotObjs}

AnalystResponses == {[text |-> t, usageMetadata |-> FullUsage] : t \in AnalystTexts}

ReporterResponses ==
    {[text |-> t, usageMetadata |-> u] :
        t \in {Undefined, Some(<<>>), Some(TextOf(4))}, u \in {FullUsage}}

GatewayError == "Error: gateway call failed"

-----------------------------------------------------------------------------
(* State *)

VARIABLES
    query,      \* the free-text query of this run
    pc,         \* where the run is: "<Stage>Call", "<Stage>Await", "Done", "Aborted"
    now,        \* the clock (ms): performance.now() and Date both read it
    invoked,    \* the stages invoked so far, in order
    thrown,     \* the failure a stage propagated to the driver, if any
    logs,       \* the driver's audit trail: the LogEntries returned so far
    decision,   \* Router's result
    sources,    \* Hunter's result, until it is handed to Scraper
    content,    \* Scraper's result
    swot,       \* Analyst's result
    report,     \* Reporter's result
    startTime,  \* the running stage's startTime
    request,    \* the gateway request in flight
    gateway,    \* the latest gateway call: "idle", "pending", "failed", "responded"
    response,   \* the gateway response the latest stage received
    discovered, \* Hunter's local discoveredUrls when it returned
    urls        \* Scraper's parameter urls

vars ==
    <<query, pc, now, invoked, thrown, logs, decision, sources, content, swot,
      report, startTime, request, gateway, response, discovered, urls>>

Init ==
    /\ query \in Queries
    /\ pc = "RouterCall"
    /\ now = ClockStart
    /\ invoked = <<>>
    /\ thrown = Undefined
    /\ logs = <<>>
    /\ decision = Undefined
    /\ sources = Undefined
    /\ content = Undefined
    /\ swot = Undefined
    /\ report = Undefined
    /\ startTime = ClockStart
    /\ request = Undefined
    /\ gateway = "idle"
    /\ response = Undefined
    /\ discovered = Undefined
    /\ urls = Undefined

\* the gateway round trip takes some time
RoundTrip == \E d \in 0..(ClockStart + MaxElapsed - now) : now' = now + d

\* the stage starts: it reads startTime and suspends at its gateway call
Invoke(stage, req) ==
    /\ invoked' = Append(invoked, stage)
    /\ startTime' = now
    /\ request' = Some(req)
    /\ gateway' = "pending"
    /\ response' = Undefined
    /\ discovered' = Undefined
    /\ now' = now

\* the call fails: generateContent rejects
GatewayFails ==
    /\ RoundTrip
    /\ gateway' = "failed"
    /\ request' = Undefined
    /\ response' = response

\* the call completes with response r
GatewayResponds(r) ==
    /\ RoundTrip
    /\ gateway' = "responded"
    /\ request' = Undefined
    /\ response' = Some(r)

\* slip: the catch block logs the error and does not rethrow it
ThrowSwallowed(stage, error) == thrown' = thrown

\* catch (error) { console.error(...); throw error; }
Throw(stage, error) == thrown' = Some([stage |-> stage, error |-> error])

\* the driver gets a failure from a stage: the run is over
DriverAborts == pc' = "Aborted" /\ logs' = logs

\* the driver gets a stage's result: it appends the LogEntry and goes on
DriverProceeds(log, next) == logs' = Append(logs, log) /\ pc' = next

-----------------------------------------------------------------------------
(* Router *)

RouterCall ==
    /\ pc = "RouterCall"
    /\ Invoke("ROUTER", RouterRequest(query))
    /\ pc' = "RouterAwait"
    /\ UNCHANGED <<query, thrown, logs, decision, sources, content, swot, report, urls>>

RouterGatewayFails ==
    /\ pc = "RouterAwait"
    /\ GatewayFails
    /\ Throw("ROUTER", GatewayError)
    /\ DriverAborts
    /\ UNCHANGED <<query, invoked, decision, sources, content, swot, report,
                   startTime, discovered, urls>>

RouterParseFails ==
    /\ pc = "RouterAwait"
    /\ \E r \in RouterResponses :
        /\ RouterThrows(r)
        /\ GatewayResponds(r)
        /\ Throw("ROUTER", "Error: cannot read the routing decision")
        /\ DriverAborts
    /\ UNCHANGED <<query, invoked, decision, sources, content, swot, report,
                   startTime, discovered, urls>>

RouterReturns ==
    /\ pc = "RouterAwait"
    /\ \E r \in RouterResponses :
        /\ ~RouterThrows(r)
        /\ GatewayResponds(r)
        /\ LET result == RouterResult(r, startTime, now', now')
           IN /\ decision' = Some(result)
              /\ DriverProceeds(result.log, "HunterCall")
    /\ UNCHANGED <<query, invoked, thrown, sources, content, swot, report,
                   startTime, discovered, urls>>

-----------------------------------------------------------------------------
(* Hunter: the driver passes Router's target_company and search_queries *)

HunterCompany == decision[1].target_company

HunterQueries == decision[1].search_queries

\* queries.length is read before the try block: undefined queries throw
HunterRejectsInput ==
    /\ pc = "HunterCall"
    /\ ~IsDefined(HunterQueries)
    /\ invoked' = Append(invoked, "HUNTER")
    /\ startTime' = now
    /\ Throw("HUNTER", "TypeError: cannot read length of undefined")
    /\ DriverAborts
    /\ UNCHANGED <<query, now, request, gateway, decision, sources, content, swot,
                   report, response, discovered, urls>>

HunterCall ==
    /\ pc = "HunterCall"
    /\ IsDefined(HunterQueries)
    /\ Invoke("HUNTER", HunterRequest(HunterCompany, HunterQueries[1]))
    /\ pc' = "HunterAwait"
    /\ UNCHANGED <<query, thrown, logs, decision, sources, content, swot, report, urls>>

HunterGatewayFails ==
    /\ pc = "HunterAwait"
    /\ GatewayFails
    /\ Throw("HUNTER", GatewayError)
    /\ DriverAborts
    /\ UNCHANGED <<query, invoked, decision, sources, content, swot, report,
                   startTime, discovered, urls>>

HunterReturns ==
    /\ pc = "HunterAwait"
    /\ \E r \in HunterResponses :
        /\ GatewayResponds(r)
        /\ discovered' = Some(discoveredUrls(HunterCompany, r))
        /\ LET result == HunterResult(HunterCompany, r, startTime, now', now')
           IN /\ sources' = Some(result.discoveredUrls)
              /\ DriverProceeds(result.log, "ScraperCall")
    /\ UNCHANGED <<query, invoked, thrown, decision, content, swot, report,
                   startTime, urls>>

-----------------------------------------------------------------------------
(* Scraper: the driver hands Hunter's records over *)

ScraperCall ==
    /\ pc = "ScraperCall"
    /\ Invoke("SCRAPER", ScraperRequest(sources[1]))
    /\ urls' = sources
    /\ sources' = Undefined
    /\ pc' = "ScraperAwait"
    /\ UNCHANGED <<query, thrown, logs, decision, content, swot, report>>

ScraperGatewayFails ==
    /\ pc = "ScraperAwait"
    /\ GatewayFails
    /\ Throw("SCRAPER", GatewayError)
    /\ DriverAborts
    /\ UNCHANGED <<query, invoked, decision, sources, content, swot, report,
                   startTime, discovered, urls>>

ScraperReturns ==
    /\ pc = "ScraperAwait"
    /\ \E r \in ScraperResponses :
        /\ GatewayResponds(r)
        /\ LET result == ScraperResult(urls[1], r, startTime, now', now')
           IN /\ content' = Some(result.extractedContent)
              /\ DriverProceeds(result.log, "AnalystCall")
    /\ UNCHANGED <<query, invoked, thrown, decision, sources, swot, report,
                   startTime, discovered, urls>>

-----------------------------------------------------------------------------
(* Analyst: the driver passes Scraper's consolidated text *)

AnalystCall ==
    /\ pc = "AnalystCall"
    /\ Invoke("ANALYST", AnalystRequest(content[1]))
    /\ urls' = Undefined
    /\ pc' = "AnalystAwait"
    /\ UNCHANGED <<query, thrown, logs, decision, sources, content, swot, report>>

AnalystGatewayFails ==
    /\ pc = "AnalystAwait"
    /\ GatewayFails
    /\ Throw("ANALYST", GatewayError)
    /\ DriverAborts
    /\ UNCHANGED <<query, invoked, decision, sources, content, swot, report,
                   startTime, discovered, urls>>

AnalystReturns ==
    /\ pc = "AnalystAwait"
    /\ \E r \in AnalystResponses :
        /\ GatewayResponds(r)
        /\ LET result == AnalystResult(r, startTime, now', now')
           IN /\ swot' = Some(result.swot)
              /\ DriverProceeds(result.log, "ReporterCall")
    /\ UNCHANGED <<query, invoked, thrown, decision, sources, content, report,
                   startTime, discovered, urls>>

-----------------------------------------------------------------------------
(* Reporter: the driver passes the SWOT, the consolidated text and the company *)

ReporterCompany == decision[1].target_company

ReporterCall ==
    /\ pc = "ReporterCall"
    /\ Invoke("REPORTER", ReporterRequest(swot[1], content[1], ReporterCompany))
    /\ pc' = "ReporterAwait"
    /\ UNCHANGED <<query, thrown, logs, decision, sources, content, swot, report, urls>>

ReporterGatewayFails ==
    /\ pc = "ReporterAwait"
    /\ GatewayFails
    /\ LET result == ReporterFailure(GatewayError, now')
       IN /\ report' = Some(result.report)
          /\ DriverProceeds(result.log, "Done")
    /\ UNCHANGED <<query, invoked, thrown, decision, sources, content, swot,
                   startTime, discovered, urls>>

ReporterEmptyResponse ==
    /\ pc = "ReporterAwait"
    /\ \E r \in ReporterResponses :
        /\ ReporterEmpty(r)
        /\ GatewayResponds(r)
        /\ LET result == ReporterFailure("Error: Reporter agent returned empty content.", now')
           IN /\ report' = Some(result.report)
              /\ DriverProceeds(result.log, "Done")
    /\ UNCHANGED <<query, invoked, thrown, decision, sources, content, swot,
                   startTime, discovered, urls>>

ReporterReturns ==
    /\ pc = "ReporterAwait"
    /\ \E r \in ReporterResponses :
        /\ ~ReporterEmpty(r)
        /\ GatewayResponds(r)
        /\ LET result == ReporterSuccess(ReporterCompany, r, startTime, now', now')
           IN /\ report' = Some(result.report)
              /\ DriverProceeds(result.log, "Done")
    /\ UNCHANGED <<query, invoked, thrown, decision, sources, content, swot,
                   startTime, discovered, urls>>

-----------------------------------------------------------------------------

Next ==
    \/ RouterCall
    \/ RouterGatewayFails
    \/ RouterParseFails
    \/ RouterReturns
    \/ HunterRejectsInput
    \/ HunterCall
    \/ HunterGatewayFails
    \/ HunterReturns
    \/ ScraperCall
    \/ ScraperGatewayFails
    \/ ScraperReturns
    \/ AnalystCall
    \/ AnalystGatewayFails
    \/ AnalystReturns
    \/ ReporterCall
    \/ ReporterGatewayFails
    \/ ReporterEmptyResponse
    \/ ReporterReturns

Spec == Init /\ [][Next]_vars

-----------------------------------------------------------------------------
(* Properties *)

LastLog == logs[Len(logs)]

LastInvoked == invoked[Len(invoked)]

\* Hunter has just returned: response, discovered and sources are Hunter's
HunterReturned == pc = "ScraperCall"

\* no grounding reference of Hunter's response has both a URI and a title
NoUsableReference ==
    \A i \in 1..Len(groundingChunks(response[1])) :
        LET chunk == groundingChunks(response[1])[i]
        IN ~(Truthy(chunk.uri) /\ Truthy(chunk.title))

CompleteScores(scores) ==
    /\ scores.kind = "object"
    /\ \A k \in ScoreKeys : IsDefined(scores.keys[k]) /\ scores.keys[k][1] \in 0..100

\* C1: whenever Analyst has returned, swot.scores holds all five keys, each with
\* an integer in [0,100], whatever the response text was.
C1_ScoresAlwaysComplete ==
    IsDefined(swot) => CompleteScores(swot[1].scores)

\* C2: Reporter never propagates a failure.  Once it has been invoked nothing is
\* thrown; when it is done the report is not empty; when the call failed or the
\* text was empty the report is the fixed placeholder and the LogEntry is an
\* ERROR with latencyMs, tokenUsage and cost 0; otherwise the report is the text.
C2_ReporterNeverFails ==
    /\ IsDefined(thrown) => thrown[1].stage # "REPORTER"
    /\ (invoked # <<>> /\ LastInvoked = "REPORTER") =>
          /\ ~IsDefined(thrown)
          /\ pc \in {"ReporterAwait", "Done"}
    /\ pc = "Done" =>
          /\ IsDefined(report)
          /\ report[1] # <<>>
          /\ LastLog.agent = "REPORTER"
          /\ (gateway = "failed" \/ ~Truthy(response[1].text)) =>
                /\ report[1] = FailedReportText
                /\ LastLog.type = "error"
                /\ LastLog.latencyMs = 0
                /\ LastLog.tokenUsage = 0
                /\ LastLog.cost = 0
          /\ (gateway = "responded" /\ Truthy(response[1].text)) =>
                /\ report[1] = response[1].text[1]
                /\ LastLog.type = "success"

C2_Witness ==
    /\ pc = "Done"
    /\ gateway = "failed"
    /\ report = Some(FailedReportText)
    /\ LastLog.type = "error"

\* what C3 says apart from the URL: one record carrying the response text, cut
\* to the cap on the way out; no record at all when the text is empty too
FallbackShape ==
    /\ (HunterReturned /\ NoUsableReference /\ Truthy(response[1].text)) =>
          /\ Len(sources[1]) = 1
          /\ Len(discovered[1]) = 1
          /\ discovered[1][1].content = response[1].text[1]
          /\ sources[1][1].content = Slice(response[1].text[1], ContentCap)
          /\ Head(sources[1][1].url) = "https://google.com/search?q="
    /\ (HunterReturned /\ NoUsableReference /\ ~Truthy(response[1].text)) =>
          Len(sources[1]) = 0

\* C3 as stated: with no usable grounding reference and non-empty text, Hunter
\* returns exactly one record, whose content is the response text and whose url
\* is the generic search URL containing the company name; with empty text too it
\* returns no record.
C3_FallbackUrlContainsCompany ==
    /\ FallbackShape
    /\ (HunterReturned /\ NoUsableReference /\ Truthy(response[1].text)
          /\ IsDefined(HunterCompany)) =>
          Contains(sources[1][1].url, HunterCompany[1])

\* C3 as amended: the url is the generic search URL followed by the company name
\* as encodeURIComponent escapes it; the name itself occurs in the url when it
\* has no character that is escaped.
C3_FallbackUrlEncodesCompany ==
    /\ FallbackShape
    /\ (HunterReturned /\ NoUsableReference /\ Truthy(response[1].text)) =>
          LET name == Interpolate(HunterCompany)
              url == sources[1][1].url
          IN /\ Tail(url) = encodeURIComponent(name)
             /\ (\A i \in 1..Len(name) : name[i] \notin {" ", "&"}) => Contains(url, name)

C3_Witness ==
    /\ HunterReturned
    /\ NoUsableReference
    /\ Truthy(response[1].text)
    /\ Len(response[1].text[1]) > ContentCap
    /\ HunterCompany = Some(CompanySpaced)
    /\ Len(sources[1]) = 1

\* C4: a Router result exists only if the response text was complete against the
\* routing schema: every Router return carries target_company, analysis_type and
\* search_queries.
C4_RouterRejectsIncomplete ==
    IsDefined(decision) =>
        /\ IsDefined(decision[1].target_company)
        /\ IsDefined(decision[1].analysis_type)
        /\ IsDefined(decision[1].search_queries)

\* the payloads of the stage and of every stage after it
PayloadsFrom(stage) ==
    CASE stage = "ROUTER" -> <<decision, sources, content, swot, report>>
      [] stage = "HUNTER" -> <<sources, content, swot, report>>
      [] stage = "SCRAPER" -> <<content, swot, report>>
      [] stage = "ANALYST" -> <<swot, report>>
      [] OTHER -> <<report>>

\* C5: a gateway failure in Router, Hunter, Scraper or Analyst is propagated to
\* the driver: the stage returns no payload and no LogEntry, no later stage is
\* invoked, the run is over and no report exists.  A gateway failure in Reporter
\* still yields a report.
C5_FailureAbortsRun ==
    /\ (gateway = "failed" /\ LastInvoked # "REPORTER") =>
          /\ IsDefined(thrown)
          /\ thrown[1].stage = LastInvoked
          /\ thrown[1].error = GatewayError
    /\ IsDefined(thrown) =>
          /\ pc = "Aborted"
          /\ thrown[1].stage \in {"ROUTER", "HUNTER", "SCRAPER", "ANALYST"}
          /\ LastInvoked = thrown[1].stage
          /\ \A i \in 1..Len(PayloadsFrom(thrown[1].stage)) :
                ~IsDefined(PayloadsFrom(thrown[1].stage)[i])
          /\ Len(logs) = Len(invoked) - 1
    /\ (gateway = "failed" /\ LastInvoked = "REPORTER") =>
          /\ IsDefined(report)
          /\ ~IsDefined(thrown)
    /\ IsDefined(report) => ~IsDefined(thrown)

C5_Witness ==
    /\ gateway = "failed"
    /\ IsDefined(thrown)
    /\ thrown[1].stage = "SCRAPER"
    /\ pc = "Aborted"

\* C6 as stated: after any run there are as many LogEntries as stages invoked,
\* a stage that failed included.
C6_OneLogPerInvocation ==
    pc \in {"Done", "Aborted"} => Len(logs) = Len(invoked)

\* C6 as amended: every invocation that returns yields exactly one LogEntry,
\* labelled with its stage, and Reporter always returns; an invocation that
\* throws, or that is still waiting for the gateway, has none.
C6_OneLogPerReturnedInvocation ==
    /\ Len(logs) = Len(invoked) - (IF IsDefined(thrown) \/ gateway = "pending" THEN 1 ELSE 0)
    /\ \A i \in 1..Len(logs) : logs[i].agent = invoked[i]
    /\ pc = "Done" => (Len(logs) = Len(invoked) /\ LastLog.agent = "REPORTER")

C6_Witness ==
    /\ pc = "Aborted"
    /\ Len(invoked) = 4
    /\ Len(logs) = 3

\* C7: when Analyst's call completes with text that is no JSON, the stage does
\* not throw: the SWOT has four empty lists and five scores of 0, the LogEntry
\* is no ERROR, and the driver can go on to Reporter.
C7_AnalystParseFailureRecovers ==
    /\ (pc = "ReporterCall" /\ response[1].text.kind = "garbage") =>
          /\ swot[1].strengths = Some(<<>>)
          /\ swot[1].weaknesses = Some(<<>>)
          /\ swot[1].opportunities = Some(<<>>)
          /\ swot[1].threats = Some(<<>>)
          /\ swot[1].scores.kind = "object"
          /\ \A k \in ScoreKeys : swot[1].scores.keys[k] = Some(0)
          /\ LastLog.agent = "ANALYST"
          /\ LastLog.type # "error"
          /\ ~IsDefined(thrown)
          /\ ENABLED ReporterCall
    /\ (IsDefined(thrown) /\ thrown[1].stage = "ANALYST") => gateway = "failed"

C7_Witness ==
    /\ pc = "ReporterCall"
    /\ response[1].text.kind = "garbage"
    /\ LastLog.agent = "ANALYST"
    /\ LastLog.message.avgTimes5 = 0

\* C8: an empty record sequence and a near-empty consolidated text are no
\* errors.  Scraper's request then carries the "No specific URLs found" text,
\* Analyst's request carries the "No data available for analysis." sentinel in
\* place of the input, and neither stage throws unless its gateway call fails.
C8_DegenerateInputProceeds ==
    /\ (pc = "ScraperAwait" /\ urls[1] = <<>>) =>
          /\ gateway = "pending"
          /\ IsDefined(request)
          /\ Contains(request[1].contents, NoUrlsText)
    /\ (pc = "AnalystAwait" /\ StrLen(Trim(content[1])) <= MinContentLen) =>
          /\ gateway = "pending"
          /\ IsDefined(request)
          /\ request[1].contents = <<"Data: ">> \o NoDataText
    /\ pc = "ScraperCall" => ENABLED ScraperCall
    /\ pc = "AnalystCall" => ENABLED AnalystCall
    /\ (IsDefined(thrown) /\ thrown[1].stage \in {"SCRAPER", "ANALYST"}) =>
          gateway = "failed"

C8_Witness ==
    /\ pc = "AnalystAwait"
    /\ StrLen(content[1]) > MinContentLen
    /\ StrLen(Trim(content[1])) <= MinContentLen
    /\ logs[3].agent = "SCRAPER"
    /\ logs[3].message.count = 0
    /\ request[1].contents = <<"Data: ">> \o NoDataText

\* C9: in a run the stages are invoked, and their LogEntries produced, in the
\* order Router, Hunter, Scraper, Analyst, Reporter, a stage being invoked only
\* when every stage before it has returned; each timestamp is at least the one
\* before it.
C9_LogsInStageOrder ==
    /\ \A i \in 1..Len(logs) : logs[i].agent = Stages[i]
    /\ \A i \in 1..Len(invoked) : invoked[i] = Stages[i]
    /\ Len(invoked) <= Len(logs) + 1
    /\ \A i \in 1..(Len(logs) - 1) : IsoLeq(logs[i].timestamp, logs[i + 1].timestamp)

C9_Witness ==
    /\ pc = "Done"
    /\ Len(logs) = 5
    /\ logs[5].type = "error"
    /\ logs[1].timestamp[1] < logs[5].timestamp[1]
    /\ logs[1].timestamp[2] > logs[5].timestamp[2]

\* C10: every record Hunter returns has content no longer than the cap and a
\* prefix of the response text; truncation keeps the number, order, url, title
\* and snippet of the records, so the count in the log message is the number of
\* records returned.
C10_ContentCapped ==
    HunterReturned =>
        /\ \A i \in 1..Len(sources[1]) :
              /\ Len(sources[1][i].content) <= ContentCap
              /\ IsPrefix(sources[1][i].content, TextOrEmpty(response[1].text))
        /\ Len(sources[1]) = Len(discovered[1])
        /\ \A i \in 1..Len(sources[1]) :
              /\ sources[1][i].url = discovered[1][i].url
              /\ sources[1][i].title = discovered[1][i].title
              /\ sources[1][i].snippet = discovered[1][i].snippet
        /\ LastLog.agent = "HUNTER"
        /\ LastLog.message.count = Len(sources[1])

C10_Witness ==
    /\ HunterReturned
    /\ Len(sources[1]) = 2
    /\ Truthy(response[1].text)
    /\ Len(response[1].text[1]) > ContentCap
    /\ Len(sources[1][1].content) = ContentCap
    /\ sources[1][1].url # sources[1][2].url

=============================================================================
